---- MODULE Spec2Model ----
(***************************************************************************)
(* Model of isaac_ws/go1_standalone.py: main(), Go1Runner.__init__,        *)
(* Go1Runner.setup, Go1Runner.on_physics_step, Go1Runner.run and           *)
(* Go1Runner._sub_keyboard_event.                                          *)
(*                                                                         *)
(* Velocities are floats in the source (1.8, 1.0).  They are modelled in   *)
(* tenths (18, 10): every value the handler can produce is a sum of        *)
(* mapping entries, and the handler only adds and subtracts them.          *)
(* Python's three-valued fields (_enter_toggled is the int 0, then False   *)
(* or True; _path_follow is unset before setup) are strings, so that       *)
(* `0 is False` is an ordinary comparison of two distinct values.          *)
(***************************************************************************)
EXTENDS Integers, Sequences, FiniteSets

VARIABLES
    pc,               \* position of main()
    args_waypoint,    \* args.waypoint as parsed from the command line
    way_points,       \* the way_points argument handed to __init__ and setup
    app_closed,       \* number of simulation_app.close() calls
    constructed,      \* Go1Runner.__init__ has run
    kb_subscribed,    \* subscribe_to_keyboard_events has been called
    phys_callback,    \* add_physics_callback has been called
    world_resets,     \* runner.world.reset() calls made by main
    _base_command,    \* self._base_command
    _enter_toggled,   \* self._enter_toggled
    _event_flag,      \* self._event_flag
    _path_follow,     \* self._path_follow
    calls,            \* calls made on the robot during the latest physics step
    nSteps,           \* physics steps run so far
    nEvents,          \* keyboard events handled so far
    lastEvent,        \* the keyboard event handled last
    held,             \* keys pressed and not yet released (the keyboard)
    wellFormed,       \* every key's events so far alternate press, release
    enterReleased,    \* an ENTER KEY_RELEASE has been handled
    cmdChanged        \* a keyboard event changed the command since the last step

vars == <<pc, args_waypoint, way_points, app_closed, constructed, kb_subscribed,
          phys_callback, world_resets, _base_command, _enter_toggled,
          _event_flag, _path_follow, calls, nSteps, nEvents, lastEvent, held,
          wellFormed, enterReleased, cmdChanged>>

mainVars == <<args_waypoint, way_points, app_closed, constructed, kb_subscribed,
              phys_callback, world_resets>>
runnerVars == <<_base_command, _enter_toggled, _event_flag, _path_follow>>
keyboardVars == <<nEvents, lastEvent, held, wellFormed, enterReleased, cmdChanged>>

----------------------------------------------------------------------------
(* Bounds of the model. *)
MaxEvents == 4
MaxSteps == 1
MaxWaypoints == 1

----------------------------------------------------------------------------
(* Program constants. *)

\* physics_downtime = 1 / 400.0 seconds, in microseconds
physics_downtime == 2500

\* 1.8, in tenths
LinearSpeed == 18

\* 1.0, in tenths
YawSpeed == 10

_input_keyboard_mapping ==
    [k \in {"NUMPAD_8", "UP", "NUMPAD_2", "DOWN", "NUMPAD_6", "RIGHT",
            "NUMPAD_4", "LEFT", "NUMPAD_7", "N", "NUMPAD_9", "M"} |->
        CASE k \in {"NUMPAD_8", "UP"}    -> <<LinearSpeed, 0, 0>>
          [] k \in {"NUMPAD_2", "DOWN"}  -> <<-LinearSpeed, 0, 0>>
          [] k \in {"NUMPAD_6", "RIGHT"} -> <<0, -LinearSpeed, 0>>
          [] k \in {"NUMPAD_4", "LEFT"}  -> <<0, LinearSpeed, 0>>
          [] k \in {"NUMPAD_7", "N"}     -> <<0, 0, YawSpeed>>
          [] k \in {"NUMPAD_9", "M"}     -> <<0, 0, -YawSpeed>>]

MappedKeys == DOMAIN _input_keyboard_mapping

\* carb.input.KeyboardEventType values the callback can receive
EventTypes == {"KEY_PRESS", "KEY_RELEASE", "KEY_REPEAT"}

\* keys the modelled keyboard sends: mapped keys of every axis and sign,
\* two keys sharing a vector, ENTER, and a key outside the mapping
InputKeys == {"UP", "NUMPAD_8", "DOWN", "LEFT", "N", "ENTER", "A"}

\* the handler ignores every event type but press and release, whatever the
\* key: auto-repeat is sent for one mapped key and for ENTER
RepeatKeys == {"UP", "ENTER"}

InputEvents ==
    {e \in [type : EventTypes, name : InputKeys] :
        e.type = "KEY_REPEAT" => e.name \in RepeatKeys}

\* what the command line can hold for -w/--waypoint
ArgKinds == {"absent", "empty", "missing_file", "bad_json", "file"}

----------------------------------------------------------------------------
(* Python list and numpy operations used by the handler. *)

\* l[a:b]
GetSlice(l, a, b) == SubSeq(l, a + 1, b)

\* l[a:b] = v, in place
SetSlice(l, a, b, v) == SubSeq(l, 1, a) \o v \o SubSeq(l, b + 1, Len(l))

\* the right operand is taken for a list: list.__iadd__ extends the left one
ListExtend(l, arr) == l \o arr

\* the right operand is subtracted where it should be added
ListIAddAsSub(l, arr) == [i \in 1..Len(l) |-> l[i] - arr[i]]

\* list += ndarray: list has no numeric slots, so ndarray.__radd__ answers
\* with the element-wise sum
ListIAddNdarray(l, arr) == [i \in 1..Len(l) |-> l[i] + arr[i]]

\* the right operand is added where it should be subtracted
ListISubAsAdd(l, arr) == [i \in 1..Len(l) |-> l[i] + arr[i]]

\* list -= ndarray: ndarray.__rsub__ answers with the element-wise difference
ListISubNdarray(l, arr) == [i \in 1..Len(l) |-> l[i] - arr[i]]

\* x is False
IsFalse(x) == x = "False"

----------------------------------------------------------------------------
(* Pieces of _sub_keyboard_event. *)

\* self._base_command[0:3] += np.array(mapping[name])
PressMapped(cmd, name) ==
    SetSlice(cmd, 0, 3, ListIAddNdarray(GetSlice(cmd, 0, 3), _input_keyboard_mapping[name]))

\* the release leaves the command as it is
ReleaseMappedNoop(cmd, name) == cmd

\* self._base_command[0:3] -= np.array(mapping[name])
ReleaseMapped(cmd, name) ==
    SetSlice(cmd, 0, 3, ListISubNdarray(GetSlice(cmd, 0, 3), _input_keyboard_mapping[name]))

\* the debounce test is dropped
EnterArmedNoDebounce(name, toggled) == name = "ENTER"

\* event.input.name == "ENTER" and self._enter_toggled is False
EnterArmed(name, toggled) == name = "ENTER" /\ IsFalse(toggled)

\* if cmd[3] == 0: cmd[3] = 1 else: cmd[3] = 0
ToggleLast(cmd) == [cmd EXCEPT ![4] = IF cmd[4] = 0 THEN 1 ELSE 0]

\* way_points is tested for truth, so an empty list counts as None
PathFollowTruthy(wp) == IF wp.isNone \/ wp.len = 0 THEN "False" ELSE "True"

\* if way_points is None: False else: True
PathFollowOf(wp) == IF wp.isNone THEN "False" ELSE "True"

\* the calls the robot receives
SwitchModeCall == <<"switch_mode">>
AdvanceCall(step_size, cmd, pf) == <<"advance", step_size, cmd, pf>>

NoEvent == [type |-> "none", name |-> "none"]
NoWaypoints == [isNone |-> TRUE, len |-> 0]

----------------------------------------------------------------------------
Init ==
    /\ pc = "start"
    /\ args_waypoint \in ArgKinds
    /\ way_points = NoWaypoints
    /\ app_closed = 0
    /\ constructed = FALSE
    /\ kb_subscribed = FALSE
    /\ phys_callback = FALSE
    /\ world_resets = 0
    /\ _base_command = <<>>
    /\ _enter_toggled = "unset"
    /\ _event_flag = FALSE
    /\ _path_follow = "unset"
    /\ calls = <<>>
    /\ nSteps = 0
    /\ nEvents = 0
    /\ lastEvent = NoEvent
    /\ held = {}
    /\ wellFormed = TRUE
    /\ enterReleased = FALSE
    /\ cmdChanged = FALSE

\* main, `if args.waypoint:` is false: no argument, or the empty string
MainNoWaypoint ==
    /\ pc = "start"
    /\ args_waypoint \in {"absent", "empty"}
    /\ pc' = "construct"
    /\ way_points' = NoWaypoints
    /\ UNCHANGED <<args_waypoint, app_closed, constructed, kb_subscribed,
                   phys_callback, world_resets>>
    /\ UNCHANGED <<runnerVars, calls, nSteps, keyboardVars>>

\* main, the file opens and parses: waypoint_pose holds one entry per record
MainLoadWaypoints ==
    /\ pc = "start"
    /\ args_waypoint = "file"
    /\ \E n \in 0..MaxWaypoints : way_points' = [isNone |-> FALSE, len |-> n]
    /\ pc' = "construct"
    /\ UNCHANGED <<args_waypoint, app_closed, constructed, kb_subscribed,
                   phys_callback, world_resets>>
    /\ UNCHANGED <<runnerVars, calls, nSteps, keyboardVars>>

\* the handler forgets to return and main goes on to build the runner
MainFileNotFoundNoReturn ==
    /\ pc = "start"
    /\ args_waypoint = "missing_file"
    /\ app_closed' = app_closed + 1
    /\ pc' = "construct"
    /\ UNCHANGED <<args_waypoint, way_points, constructed, kb_subscribed,
                   phys_callback, world_resets>>
    /\ UNCHANGED <<runnerVars, calls, nSteps, keyboardVars>>

\* main, except FileNotFoundError: close the app and return
MainFileNotFound ==
    /\ pc = "start"
    /\ args_waypoint = "missing_file"
    /\ app_closed' = app_closed + 1
    /\ pc' = "closed"
    /\ UNCHANGED <<args_waypoint, way_points, constructed, kb_subscribed,
                   phys_callback, world_resets>>
    /\ UNCHANGED <<runnerVars, calls, nSteps, keyboardVars>>

\* main, json.load or a record lookup raises: nothing catches it
MainOtherError ==
    /\ pc = "start"
    /\ args_waypoint = "bad_json"
    /\ pc' = "crashed"
    /\ UNCHANGED mainVars
    /\ UNCHANGED <<runnerVars, calls, nSteps, keyboardVars>>

\* Go1Runner.__init__
Go1RunnerInit ==
    /\ pc = "construct"
    /\ constructed' = TRUE
    /\ _enter_toggled' = "0"
    /\ _base_command' = <<0, 0, 0, 0>>
    /\ _event_flag' = FALSE
    /\ pc' = "setup"
    /\ UNCHANGED <<args_waypoint, way_points, app_closed, kb_subscribed,
                   phys_callback, world_resets, _path_follow>>
    /\ UNCHANGED <<calls, nSteps, keyboardVars>>

\* Go1Runner.setup
Setup ==
    /\ pc = "setup"
    /\ kb_subscribed' = TRUE
    /\ phys_callback' = TRUE
    /\ _path_follow' = PathFollowOf(way_points)
    /\ pc' = "reset"
    /\ UNCHANGED <<args_waypoint, way_points, app_closed, constructed, world_resets>>
    /\ UNCHANGED <<_base_command, _enter_toggled, _event_flag>>
    /\ UNCHANGED <<calls, nSteps, keyboardVars>>

\* main, runner.world.reset(), twice, then runner.run()
WorldReset ==
    /\ pc = "reset"
    /\ world_resets' = world_resets + 1
    /\ pc' = IF world_resets + 1 = 2 THEN "run" ELSE "reset"
    /\ UNCHANGED <<args_waypoint, way_points, app_closed, constructed,
                   kb_subscribed, phys_callback>>
    /\ UNCHANGED <<runnerVars, calls, nSteps, keyboardVars>>

\* the flag is left set after switch_mode
OnPhysicsStepKeepFlag ==
    /\ pc = "run"
    /\ phys_callback
    /\ nSteps < MaxSteps
    /\ calls' = (IF _event_flag THEN <<SwitchModeCall>> ELSE <<>>)
                 \o <<AdvanceCall(physics_downtime, _base_command, _path_follow)>>
    /\ nSteps' = nSteps + 1
    /\ cmdChanged' = FALSE
    /\ UNCHANGED <<pc, mainVars, runnerVars>>
    /\ UNCHANGED <<nEvents, lastEvent, held, wellFormed, enterReleased>>

\* Go1Runner.on_physics_step, called by world.step with the physics dt
OnPhysicsStep ==
    /\ pc = "run"
    /\ phys_callback
    /\ nSteps < MaxSteps
    /\ calls' = (IF _event_flag THEN <<SwitchModeCall>> ELSE <<>>)
                 \o <<AdvanceCall(physics_downtime, _base_command, _path_follow)>>
    /\ _event_flag' = FALSE
    /\ nSteps' = nSteps + 1
    /\ cmdChanged' = FALSE
    /\ UNCHANGED <<pc, mainVars, _base_command, _enter_toggled, _path_follow>>
    /\ UNCHANGED <<nEvents, lastEvent, held, wellFormed, enterReleased>>

\* Go1Runner._sub_keyboard_event, called by the app for one keyboard event
SubKeyboardEvent(type, name) ==
    /\ pc = "run"
    /\ kb_subscribed
    /\ nEvents < MaxEvents
    /\ LET press        == type = "KEY_PRESS"
           release      == type = "KEY_RELEASE"
           mapped       == name \in MappedKeys
           cmd1         == IF press /\ mapped THEN PressMapped(_base_command, name)
                           ELSE IF release /\ mapped THEN ReleaseMapped(_base_command, name)
                           ELSE _base_command
           toggle       == press /\ EnterArmed(name, _enter_toggled)
           cmd2         == IF toggle THEN ToggleLast(cmd1) ELSE cmd1
       IN  /\ _base_command' = cmd2
           /\ _event_flag' = (((press \/ release) /\ mapped) \/ toggle)
           /\ _enter_toggled' = IF toggle THEN "True"
                                ELSE IF release /\ name = "ENTER" THEN "False"
                                ELSE _enter_toggled
           /\ cmdChanged' = (cmdChanged \/ cmd2 # _base_command)
           /\ held' = IF press THEN held \cup {name}
                      ELSE IF release THEN held \ {name}
                      ELSE held
           /\ wellFormed' = (wellFormed /\ (press => name \notin held)
                                        /\ (release => name \in held))
           /\ enterReleased' = (enterReleased \/ (release /\ name = "ENTER"))
    /\ nEvents' = nEvents + 1
    /\ lastEvent' = [type |-> type, name |-> name]
    /\ UNCHANGED <<pc, mainVars, _path_follow, calls, nSteps>>

\* Go1Runner.run ends when the app stops running; main closes the app
RunEnds ==
    /\ pc = "run"
    /\ app_closed' = app_closed + 1
    /\ pc' = "done"
    /\ UNCHANGED <<args_waypoint, way_points, constructed, kb_subscribed,
                   phys_callback, world_resets>>
    /\ UNCHANGED <<runnerVars, calls, nSteps, keyboardVars>>

KeyboardEvent == \E e \in InputEvents : SubKeyboardEvent(e.type, e.name)

Next ==
    \/ MainNoWaypoint
    \/ MainLoadWaypoints
    \/ MainFileNotFound
    \/ MainOtherError
    \/ Go1RunnerInit
    \/ Setup
    \/ WorldReset
    \/ OnPhysicsStep
    \/ KeyboardEvent
    \/ RunEnds

Spec == Init /\ [][Next]_vars

----------------------------------------------------------------------------
(* Vocabulary of the properties. *)

\* this step is the handling of the keyboard event (type, name)
Handled(type, name) ==
    /\ nEvents' = nEvents + 1
    /\ lastEvent' = [type |-> type, name |-> name]

\* this step is the handling of some event of the given type for a mapped key
HandledMapped(type) ==
    /\ nEvents' = nEvents + 1
    /\ lastEvent'.type = type
    /\ lastEvent'.name \in MappedKeys

\* this step is a physics step
Stepped == nSteps' = nSteps + 1

\* component i of the sum of the mapped vectors of the keys in S
RECURSIVE SumOfMapped(_, _)
SumOfMapped(S, i) ==
    IF S = {} THEN 0
    ELSE LET k == CHOOSE x \in S : TRUE
         IN  _input_keyboard_mapping[k][i] + SumOfMapped(S \ {k}, i)

\* the value of _path_follow the command line calls for
ExpectedPathFollow == IF args_waypoint = "file" THEN "True" ELSE "False"

----------------------------------------------------------------------------
(* C1: once the runner is constructed the base command always has exactly  *)
(* 4 elements, whatever keyboard events and physics steps have happened.   *)
C1_CommandHasFourElements == constructed => Len(_base_command) = 4

C1_Witness ==
    /\ nEvents >= 3
    /\ nSteps >= 1
    /\ lastEvent.name \in MappedKeys
    /\ _base_command[1] # 0
    /\ Len(_base_command) = 4

(* C2: a KEY_PRESS of a mapped key adds the key's vector to components     *)
(* 0..2 of the base command, element by element, and leaves the mode       *)
(* toggle (component 3) as it was.                                         *)
C2_PressIncrements ==
    [][HandledMapped("KEY_PRESS") =>
          /\ \A i \in 1..3 :
                _base_command'[i] =
                    _base_command[i] + _input_keyboard_mapping[lastEvent'.name][i]
          /\ _base_command'[4] = _base_command[4]]_vars

C2_Witness ==
    /\ lastEvent = [type |-> "KEY_PRESS", name |-> "DOWN"]
    /\ _base_command = <<-LinearSpeed, 0, YawSpeed, 1>>

(* C3: a KEY_RELEASE of a mapped key subtracts the key's vector from       *)
(* components 0..2 of the base command, element by element, and leaves     *)
(* the mode toggle (component 3) as it was.                                *)
C3_ReleaseDecrements ==
    [][HandledMapped("KEY_RELEASE") =>
          /\ \A i \in 1..3 :
                _base_command'[i] =
                    _base_command[i] - _input_keyboard_mapping[lastEvent'.name][i]
          /\ _base_command'[4] = _base_command[4]]_vars

C3_Witness ==
    /\ lastEvent = [type |-> "KEY_RELEASE", name |-> "UP"]
    /\ "LEFT" \in held
    /\ nEvents >= 3
    /\ _base_command = <<0, LinearSpeed, 0, 0>>

(* C4: a KEY_PRESS of ENTER handled while ENTER is not held toggles the    *)
(* mode component (0 to 1, 1 to 0) and sets the event flag, the first      *)
(* ENTER press after construction included.                                *)
C4_EnterPressToggles ==
    [][(Handled("KEY_PRESS", "ENTER") /\ "ENTER" \notin held) =>
          /\ _base_command'[4] = 1 - _base_command[4]
          /\ _event_flag']_vars

(* C5: a physics step calls advance exactly once, with the physics dt, the *)
(* base command as it stands and the path-follow flag; switch_mode is      *)
(* called, once and before advance, exactly when the event flag is set on  *)
(* entry; the event flag is false when the step returns.                   *)
C5_StepForwardsCommand ==
    [][Stepped =>
          /\ calls' = (IF _event_flag THEN <<SwitchModeCall>> ELSE <<>>)
                        \o <<AdvanceCall(physics_downtime, _base_command, _path_follow)>>
          /\ _base_command' = _base_command
          /\ ~_event_flag']_vars

C5_Witness ==
    /\ nSteps >= 1
    /\ nEvents >= 2
    /\ calls = <<SwitchModeCall,
                 AdvanceCall(physics_downtime, <<LinearSpeed, 0, 0, 1>>, "True")>>
    /\ ~_event_flag

(* C6: when the waypoint file is not found main closes the app exactly     *)
(* once and returns: no runner is constructed, no callback is registered,  *)
(* the world is never reset or stepped, no keyboard event is handled.      *)
C6_FileNotFoundEndsMain ==
    (args_waypoint = "missing_file" /\ pc # "start") =>
        /\ pc = "closed"
        /\ app_closed = 1
        /\ ~constructed
        /\ ~kb_subscribed
        /\ ~phys_callback
        /\ world_resets = 0
        /\ nSteps = 0
        /\ nEvents = 0

C6_Witness == pc = "closed" /\ args_waypoint = "missing_file" /\ app_closed = 1

(* C7: from setup on, the path-follow flag is True exactly when a waypoint *)
(* file was given and loaded (an empty list of waypoints included) and     *)
(* False when none was given; every advance call passes that value.        *)
C7_PathFollowFixed ==
    pc \in {"reset", "run", "done"} =>
        /\ _path_follow = ExpectedPathFollow
        /\ \A i \in DOMAIN calls :
              calls[i][1] = "advance" => calls[i][4] = ExpectedPathFollow

C7_Witness ==
    /\ args_waypoint = "file"
    /\ way_points.len = 0
    /\ nEvents >= 2
    /\ nSteps >= 1
    /\ calls[Len(calls)][4] = "True"

(* C8: while ENTER is held the mode component never changes; an ENTER      *)
(* press handled while ENTER is held changes nothing in the command and    *)
(* does not set the event flag; an ENTER release changes nothing in the    *)
(* command, and the ENTER press that follows it toggles the mode.          *)
C8_EnterDebounced ==
    [][/\ "ENTER" \in held => _base_command'[4] = _base_command[4]
       /\ (Handled("KEY_PRESS", "ENTER") /\ "ENTER" \in held) =>
              (_base_command' = _base_command /\ ~_event_flag')
       /\ Handled("KEY_RELEASE", "ENTER") =>
              (_base_command' = _base_command /\ "ENTER" \notin held')
       /\ (Handled("KEY_PRESS", "ENTER") /\ "ENTER" \notin held /\ enterReleased) =>
              (_base_command'[4] = 1 - _base_command[4] /\ _event_flag')]_vars

C8_Witness ==
    /\ enterReleased
    /\ lastEvent = [type |-> "KEY_PRESS", name |-> "ENTER"]
    /\ "ENTER" \in held
    /\ _base_command[4] = 1
    /\ ~_event_flag

(* C9: as long as every key's events alternate press, release, components  *)
(* 0..2 of the base command are the sum of the mapped vectors of the       *)
(* mapped keys held down (all zero when none is held).                     *)
C9_CommandIsSumOfHeld ==
    (constructed /\ wellFormed) =>
        \A i \in 1..3 : _base_command[i] = SumOfMapped(held \cap MappedKeys, i)

C9_Witness ==
    /\ wellFormed
    /\ held = {"UP", "NUMPAD_8"}
    /\ nEvents >= 4
    /\ _base_command[1] = 2 * LinearSpeed

(* C10: if a keyboard event has changed the base command since the last    *)
(* physics step, the next physics step calls switch_mode, whatever other   *)
(* keyboard events were handled in between.                                *)
C10_NoChangeLost ==
    [][(Stepped /\ cmdChanged) =>
          \E i \in DOMAIN calls' : calls'[i] = SwitchModeCall]_vars

====
